---- MODULE Spec2Model ----
(***************************************************************************)
(* A model of the redis-clone server: the RESP codec (resp.go), the two    *)
(* lock-protected stores and the command handlers (main.go), and the       *)
(* append-only file (aof.go).                                              *)
(*                                                                         *)
(* Go strings and byte slices are sequences of byte values (0..255).       *)
(* A Go Value struct is a record with the struct's five fields; a nil      *)
(* slice and an empty slice are both the empty sequence.                   *)
(***************************************************************************)
EXTENDS Integers, Sequences, FiniteSets, TLC

VARIABLES
    frames,     \* codec: the Values handed to Writer.Write, in order
    nw,         \* codec: how many of them have been written
    stream,     \* codec: the bytes written to the connection so far
    rdpos,      \* codec: bytes the Resp reader has consumed from the stream
    outs,       \* codec: the outcome of each Resp.Read call, in order
    data,       \* store.data: the String Store's map
    hdata,      \* hashStore.data: the Hash Store's map of maps
    cmd,        \* server: the command executed last, [name, args]
    result,     \* server: the Value its handler returned
    reply,      \* server: the bytes Writer.Write sent for that Value
    lastW,      \* history: per key, the most recent SET or DEL naming it
    hlastW,     \* history: per hash and field, the most recent HSET or HDEL
    mu,         \* workers: store.mu, [writer, readers]
    pc,         \* workers: where each worker is in its store call
    cur,        \* workers: the store call each worker is making
    loc,        \* workers: the local variables of that call (its return values)
    res,        \* workers: what each worker's last completed call returned
    ref,        \* workers: the sequential map, updated at linearization points
    expd,       \* workers: what the sequential map answered at that point
    file,       \* log: the bytes of the append-only file
    offset,     \* log: the offset of the open file handle aof.file
    written,    \* log: the Values passed to Aof.Write so far, in order
    replayed,   \* log: the Values the last Aof.Read passed to its callback
    readErr,    \* log: what the last Aof.Read returned ("" for nil)
    phase,      \* log: where the process is: "boot", "replayed", "live"
    reads,      \* log: the number of Aof.Read calls completed
    snap,       \* log: the stores as they were at a chosen earlier moment
    locks,      \* runtime: aof.mu, store.mu, hashStore.mu: [writer, readers]
    proc,       \* runtime: where each goroutine is and what it has left to do
    disk,       \* runtime: the bytes of the file that are on stable storage
    closed,     \* runtime: whether aof.file has been closed
    conn        \* main (main.go:9-49): where it is, and its use of the connection

codecVars == <<frames, nw, stream, rdpos, outs>>
storeVars == <<data, hdata>>
serverVars == <<cmd, result, reply, lastW, hlastW>>
workerVars == <<mu, pc, cur, loc, res, ref, expd>>
logVars == <<file, offset, written, replayed, readErr, phase, reads, snap>>

runVars == <<locks, proc, disk, closed>>

vars == <<codecVars, storeVars, serverVars, conn, workerVars, logVars, runVars>>

-----------------------------------------------------------------------------
(* Bytes and wire-format constants (resp.go:10-17).                        *)

\* STRING in the source; that word is reserved in TLA+
STRING_ == 43
ERROR == 45
INTEGER == 58
BULK == 36
ARRAY == 42
CR == 13
LF == 10

TYPE_STRING == "string"
TYPE_ERROR == "error"
TYPE_INTEGER == "integer"
TYPE_BULK == "bulk"
TYPE_ARRAY == "array"
TYPE_NULL == "null"

\* The zero Value, Value{}.
ZeroValue == [typ |-> "", str |-> <<>>, num |-> 0, bulk |-> <<>>, array |-> <<>>]

SimpleStringV(s) == [ZeroValue EXCEPT !.typ = TYPE_STRING, !.str = s]
ErrorV(s) == [ZeroValue EXCEPT !.typ = TYPE_ERROR, !.str = s]
IntegerV(n) == [ZeroValue EXCEPT !.typ = TYPE_INTEGER, !.num = n]
BulkV(b) == [ZeroValue EXCEPT !.typ = TYPE_BULK, !.bulk = b]
NullV == [ZeroValue EXCEPT !.typ = TYPE_NULL]
ArrayV(a) == [ZeroValue EXCEPT !.typ = TYPE_ARRAY, !.array = a]

-----------------------------------------------------------------------------
(* strconv.Itoa and strconv.ParseInt(s, 10, 64) on byte sequences.         *)

RECURSIVE ItoaNat(_)
ItoaNat(n) ==
    IF n < 10 THEN <<48 + n>> ELSE ItoaNat(n \div 10) \o <<48 + (n % 10)>>

Itoa(n) == IF n < 0 THEN <<45>> \o ItoaNat(0 - n) ELSE ItoaNat(n)

IsDigit(b) == b >= 48 /\ b <= 57

RECURSIVE DigitsVal(_)
DigitsVal(ds) ==
    IF Len(ds) = 0 THEN 0
    ELSE 10 * DigitsVal(SubSeq(ds, 1, Len(ds) - 1)) + (ds[Len(ds)] - 48)

\* An optional sign, then one or more decimal digits; anything else is a
\* *NumError.  (The 64-bit range is never reached within the model's bounds.)
ParseInt(line) ==
    LET signed == Len(line) >= 1 /\ line[1] \in {43, 45}
        ds == IF signed THEN SubSeq(line, 2, Len(line)) ELSE line
    IN  IF Len(ds) = 0 \/ \E i \in 1..Len(ds) : ~IsDigit(ds[i])
        THEN [ok |-> FALSE, n |-> 0]
        ELSE [ok |-> TRUE,
              n |-> IF signed /\ line[1] = 45 THEN 0 - DigitsVal(ds)
                    ELSE DigitsVal(ds)]

-----------------------------------------------------------------------------
(* The encoder (resp.go:179-258).                                          *)

marshalString(v) == <<STRING_>> \o v.str \o <<CR, LF>>

marshalBulk(v) == <<BULK>> \o Itoa(Len(v.bulk)) \o <<CR, LF>> \o v.bulk \o <<CR, LF>>

marshallError(v) == <<ERROR>> \o v.str \o <<CR, LF>>

marshallNull(v) == <<BULK, 45, 49, CR, LF>>

RECURSIVE Marshal(_)
RECURSIVE marshalElems(_, _)
\* the loop of marshalArray: the encodings of elements i.. appended in order
marshalElems(a, i) ==
    IF i > Len(a) THEN <<>> ELSE Marshal(a[i]) \o marshalElems(a, i + 1)

marshalArray(v) ==
    <<ARRAY>> \o Itoa(Len(v.array)) \o <<CR, LF>> \o marshalElems(v.array, 1)

Marshal(v) ==
    CASE v.typ = "array" -> marshalArray(v)
      [] v.typ = "bulk" -> marshalBulk(v)
      [] v.typ = "string" -> marshalString(v)
      [] v.typ = "null" -> marshallNull(v)
      [] v.typ = "error" -> marshallError(v)
      [] OTHER -> <<>>

-----------------------------------------------------------------------------
(* The decoder (resp.go:39-159).  A reader position p is the number of     *)
(* bytes of the stream s already consumed; the stream is complete (the     *)
(* writer has closed it), so reading past its end is io.EOF.               *)
(* Every outcome is [err, v, pos]: err is "" for nil, and "panic" when the *)
(* Go runtime panics (make with a negative length).                        *)

\* bufio.Reader.ReadByte
ReadByte(s, p) ==
    IF p < Len(s) THEN [err |-> "", b |-> s[p + 1], pos |-> p + 1]
    ELSE [err |-> "EOF", b |-> 0, pos |-> p]

\* readLine: bytes are accumulated until the byte before the last one is CR
\* (the last byte itself is not examined); the last two are stripped.
readLine(s, p) ==
    LET ends == {j \in (p + 2)..Len(s) : s[j - 1] = CR}
    IN  IF ends = {}
        THEN [err |-> "EOF", line |-> <<>>, n |-> 0, pos |-> Len(s)]
        ELSE LET j == CHOOSE x \in ends : \A y \in ends : x <= y
             IN  [err |-> "", line |-> SubSeq(s, p + 1, j - 2), n |-> j - p, pos |-> j]

readInteger(s, p) ==
    LET l == readLine(s, p)
        i == ParseInt(l.line)
    IN  IF l.err # "" THEN [err |-> l.err, x |-> 0, n |-> 0, pos |-> l.pos]
        ELSE IF ~i.ok THEN [err |-> "NumError", x |-> 0, n |-> 0, pos |-> l.pos]
        ELSE [err |-> "", x |-> i.n, n |-> l.n, pos |-> l.pos]

\* io.ReadFull(r.reader, buf) with len(buf) = length >= 0
ReadFull(s, p, length) ==
    IF length = 0 THEN [err |-> "", buf |-> <<>>, pos |-> p]
    ELSE IF p >= Len(s) THEN [err |-> "EOF", buf |-> <<>>, pos |-> p]
    ELSE IF Len(s) - p < length
    THEN [err |-> "ErrUnexpectedEOF", buf |-> SubSeq(s, p + 1, Len(s)), pos |-> Len(s)]
    ELSE [err |-> "", buf |-> SubSeq(s, p + 1, p + length), pos |-> p + length]

\* readBulk with the payload read by readLine instead of io.ReadFull
readBulk_ByLine(s, p) ==
    LET v == [ZeroValue EXCEPT !.typ = "bulk"]
        i == readInteger(s, p)
    IN  IF i.err # "" THEN [err |-> i.err, v |-> v, pos |-> i.pos]
        ELSE IF i.x < 0 THEN [err |-> "panic", v |-> v, pos |-> i.pos]
        ELSE LET t == readLine(s, i.pos)
             IN  [err |-> t.err, v |-> [v EXCEPT !.bulk = t.line], pos |-> t.pos]

readBulk(s, p) ==
    LET v == [ZeroValue EXCEPT !.typ = "bulk"]
        i == readInteger(s, p)
    IN  IF i.err # "" THEN [err |-> i.err, v |-> v, pos |-> i.pos]
        ELSE IF i.x < 0 THEN [err |-> "panic", v |-> v, pos |-> i.pos]
        ELSE LET f == ReadFull(s, i.pos, i.x)
             IN  IF f.err # "" THEN [err |-> f.err, v |-> v, pos |-> f.pos]
                 ELSE LET vb == [v EXCEPT !.bulk = f.buf]
                          t == readLine(s, f.pos)
                      IN  [err |-> t.err, v |-> vb, pos |-> t.pos]

ZeroValues(n) == [k \in 1..n |-> ZeroValue]

RECURSIVE Read(_, _)
RECURSIVE readElems(_, _, _, _)
\* the loop of readArray: acc holds the elements decoded so far, n the
\* declared count; on an error the unfilled elements stay zero Values
readElems(s, p, n, acc) ==
    IF Len(acc) >= n THEN [err |-> "", v |-> ArrayV(acc), pos |-> p]
    ELSE LET e == Read(s, p)
         IN  IF e.err # ""
             THEN [err |-> e.err, v |-> ArrayV(acc \o ZeroValues(n - Len(acc))),
                   pos |-> e.pos]
             ELSE readElems(s, e.pos, n, Append(acc, e.v))

readArray(s, p) ==
    LET v == [ZeroValue EXCEPT !.typ = "array"]
        i == readInteger(s, p)
    IN  IF i.err # "" THEN [err |-> i.err, v |-> v, pos |-> i.pos]
        ELSE IF i.x < 0 THEN [err |-> "panic", v |-> v, pos |-> i.pos]
        ELSE readElems(s, i.pos, i.x, <<>>)

Read(s, p) ==
    LET t == ReadByte(s, p)
    IN  IF t.err # "" THEN [err |-> t.err, v |-> ZeroValue, pos |-> t.pos]
        ELSE IF t.b = ARRAY THEN readArray(s, t.pos)
        ELSE IF t.b = BULK THEN readBulk(s, t.pos)
        ELSE [err |-> "unknown RESP type byte", v |-> ZeroValue, pos |-> t.pos]

-----------------------------------------------------------------------------
(* The Data Store Layer (main.go:88-206).  A Go map is a function with a   *)
(* finite domain.  Each method runs under its store's lock, so a call is   *)
(* one atomic transformation of the map.                                   *)

EmptyMap == <<>>

MapPut(m, k, v) == [x \in DOMAIN m \cup {k} |-> IF x = k THEN v ELSE m[x]]

MapDelete(m, k) == [x \in DOMAIN m \ {k} |-> m[x]]

\* Set that appends to the value already stored
RedisStore_Set_Append(d, key, value) ==
    MapPut(d, key, IF key \in DOMAIN d THEN d[key] \o value ELSE value)

\* (s *RedisStore) Set
RedisStore_Set(d, key, value) == MapPut(d, key, value)

\* (s *RedisStore) Get
RedisStore_Get(d, key) ==
    IF key \in DOMAIN d THEN [value |-> d[key], ok |-> TRUE]
    ELSE [value |-> <<>>, ok |-> FALSE]

\* Delete that reports the key but leaves it in the map
RedisStore_Delete_Keep(d, key) == [data |-> d, existed |-> key \in DOMAIN d]

\* (s *RedisStore) Delete
RedisStore_Delete(d, key) == [data |-> MapDelete(d, key), existed |-> key \in DOMAIN d]

\* (s *RedisStore) Exists
RedisStore_Exists(d, key) == key \in DOMAIN d

\* (h *HashStore) Set
HashStore_Set(hd, hash, key, value) ==
    LET created == IF hash \in DOMAIN hd THEN hd ELSE MapPut(hd, hash, EmptyMap)
    IN  [created EXCEPT ![hash] = MapPut(created[hash], key, value)]

\* (h *HashStore) Get
HashStore_Get(hd, hash, key) ==
    IF hash \notin DOMAIN hd THEN [value |-> <<>>, ok |-> FALSE]
    ELSE IF key \in DOMAIN hd[hash] THEN [value |-> hd[hash][key], ok |-> TRUE]
    ELSE [value |-> <<>>, ok |-> FALSE]

\* (h *HashStore) GetAll: a copy of the inner map
HashStore_GetAll(hd, hash) ==
    IF hash \notin DOMAIN hd THEN [result |-> EmptyMap, ok |-> FALSE]
    ELSE [result |-> hd[hash], ok |-> TRUE]

\* Delete without the clean-up of an emptied hash
HashStore_Delete_NoCleanup(hd, hash, key) ==
    IF hash \notin DOMAIN hd THEN [data |-> hd, existed |-> FALSE]
    ELSE [data |-> [hd EXCEPT ![hash] = MapDelete(hd[hash], key)],
          existed |-> key \in DOMAIN hd[hash]]

\* (h *HashStore) Delete
HashStore_Delete(hd, hash, key) ==
    IF hash \notin DOMAIN hd THEN [data |-> hd, existed |-> FALSE]
    ELSE LET hashMap == MapDelete(hd[hash], key)
             existed == key \in DOMAIN hd[hash]
         IN  IF DOMAIN hashMap = {}
             THEN [data |-> MapDelete(hd, hash), existed |-> existed]
             ELSE [data |-> [hd EXCEPT ![hash] = hashMap], existed |-> existed]

-----------------------------------------------------------------------------
(* The command handlers (main.go:68-86, 213-355).  A handler takes the     *)
(* argument Values and the two stores st = [data, hdata] and yields the    *)
(* stores afterwards and the reply Value.                                  *)

\* "ERR wrong number of arguments for '<name>' command", name as bytes
WrongArgs(name) ==
    ErrorV(<<69, 82, 82, 32, 119, 114, 111, 110, 103, 32, 110, 117, 109, 98, 101,
             114, 32, 111, 102, 32, 97, 114, 103, 117, 109, 101, 110, 116, 115,
             32, 102, 111, 114, 32, 39>> \o name
           \o <<39, 32, 99, 111, 109, 109, 97, 110, 100>>)

OK == SimpleStringV(<<79, 75>>)
PONG == SimpleStringV(<<80, 79, 78, 71>>)

Ret(st, v) == [data |-> st.data, hdata |-> st.hdata, result |-> v]

ping(args, st) ==
    IF Len(args) = 0 THEN Ret(st, PONG)
    ELSE Ret(st, SimpleStringV(args[1].bulk))

set(args, st) ==
    IF Len(args) # 2 THEN Ret(st, WrongArgs(<<115, 101, 116>>))
    ELSE [data |-> RedisStore_Set(st.data, args[1].bulk, args[2].bulk),
          hdata |-> st.hdata, result |-> OK]

get(args, st) ==
    IF Len(args) # 1 THEN Ret(st, WrongArgs(<<103, 101, 116>>))
    ELSE LET g == RedisStore_Get(st.data, args[1].bulk)
         IN  IF ~g.ok THEN Ret(st, NullV) ELSE Ret(st, BulkV(g.value))

RECURSIVE delLoop_CountAll(_, _, _, _)
\* the loop of del counting every argument, removed or not
delLoop_CountAll(args, i, d, count) ==
    IF i > Len(args) THEN [data |-> d, count |-> count]
    ELSE delLoop_CountAll(args, i + 1, RedisStore_Delete(d, args[i].bulk).data, count + 1)

RECURSIVE delLoop(_, _, _, _)
\* the loop of del from argument i on: [data, count]
delLoop(args, i, d, count) ==
    IF i > Len(args) THEN [data |-> d, count |-> count]
    ELSE LET r == RedisStore_Delete(d, args[i].bulk)
         IN  delLoop(args, i + 1, r.data, IF r.existed THEN count + 1 ELSE count)

\* del that also drops the hash named like the first key
del_BothStores(args, st) ==
    IF Len(args) = 0 THEN Ret(st, WrongArgs(<<100, 101, 108>>))
    ELSE LET r == delLoop(args, 1, st.data, 0)
         IN  [data |-> r.data, hdata |-> MapDelete(st.hdata, args[1].bulk),
              result |-> IntegerV(r.count)]

del(args, st) ==
    IF Len(args) = 0 THEN Ret(st, WrongArgs(<<100, 101, 108>>))
    ELSE LET r == delLoop(args, 1, st.data, 0)
         IN  [data |-> r.data, hdata |-> st.hdata, result |-> IntegerV(r.count)]

RECURSIVE existsLoop(_, _, _, _)
existsLoop(args, i, d, count) ==
    IF i > Len(args) THEN count
    ELSE existsLoop(args, i + 1, d,
                    IF RedisStore_Exists(d, args[i].bulk) THEN count + 1 ELSE count)

exists(args, st) ==
    IF Len(args) = 0 THEN Ret(st, WrongArgs(<<101, 120, 105, 115, 116, 115>>))
    ELSE Ret(st, IntegerV(existsLoop(args, 1, st.data, 0)))

hset(args, st) ==
    IF Len(args) # 3 THEN Ret(st, WrongArgs(<<104, 115, 101, 116>>))
    ELSE [data |-> st.data,
          hdata |-> HashStore_Set(st.hdata, args[1].bulk, args[2].bulk, args[3].bulk),
          result |-> OK]

hget(args, st) ==
    IF Len(args) # 2 THEN Ret(st, WrongArgs(<<104, 103, 101, 116>>))
    ELSE LET g == HashStore_Get(st.hdata, args[1].bulk, args[2].bulk)
         IN  IF ~g.ok THEN Ret(st, NullV) ELSE Ret(st, BulkV(g.value))

\* The orders in which a range loop may visit the keys of map m.
IterOrders(m) ==
    {o \in [1..Cardinality(DOMAIN m) -> DOMAIN m] :
        \A i, j \in DOMAIN o : o[i] = o[j] => i = j}

\* hgetall appending the field name in place of its value
hgetall_FieldTwice(args, st, order) ==
    IF Len(args) # 1 THEN Ret(st, WrongArgs(<<104, 103, 101, 116, 97, 108, 108>>))
    ELSE LET g == HashStore_GetAll(st.hdata, args[1].bulk)
         IN  IF ~g.ok THEN Ret(st, ArrayV(<<>>))
             ELSE Ret(st, ArrayV([i \in 1..(2 * Len(order)) |->
                                    BulkV(order[(i + 1) \div 2])]))

\* order is the order in which the range loop visits the copied map
hgetall(args, st, order) ==
    IF Len(args) # 1 THEN Ret(st, WrongArgs(<<104, 103, 101, 116, 97, 108, 108>>))
    ELSE LET g == HashStore_GetAll(st.hdata, args[1].bulk)
         IN  IF ~g.ok THEN Ret(st, ArrayV(<<>>))
             ELSE Ret(st, ArrayV([i \in 1..(2 * Len(order)) |->
                                    IF i % 2 = 1 THEN BulkV(order[(i + 1) \div 2])
                                    ELSE BulkV(g.result[order[i \div 2]])]))

RECURSIVE hdelLoop(_, _, _, _, _)
hdelLoop(args, i, hash, hd, count) ==
    IF i > Len(args) THEN [data |-> hd, count |-> count]
    ELSE LET r == HashStore_Delete(hd, hash, args[i].bulk)
         IN  hdelLoop(args, i + 1, hash, r.data,
                      IF r.existed THEN count + 1 ELSE count)

\* hdel whose arity check lets a lone hash name through
hdel_MinOne(args, st) ==
    IF Len(args) < 1 THEN Ret(st, WrongArgs(<<104, 100, 101, 108>>))
    ELSE LET r == hdelLoop(args, 2, args[1].bulk, st.hdata, 0)
         IN  [data |-> st.data, hdata |-> r.data, result |-> IntegerV(r.count)]

hdel(args, st) ==
    IF Len(args) < 2 THEN Ret(st, WrongArgs(<<104, 100, 101, 108>>))
    ELSE LET r == hdelLoop(args, 2, args[1].bulk, st.hdata, 0)
         IN  [data |-> st.data, hdata |-> r.data, result |-> IntegerV(r.count)]

HandlerNames ==
    {"PING", "EXISTS", "SET", "GET", "DEL", "HSET", "HGET", "HGETALL", "HDEL"}

\* the Handlers table: the handler registered under name, applied
Handlers(name, args, st, order) ==
    CASE name = "PING" -> ping(args, st)
      [] name = "EXISTS" -> exists(args, st)
      [] name = "SET" -> set(args, st)
      [] name = "GET" -> get(args, st)
      [] name = "DEL" -> del(args, st)
      [] name = "HSET" -> hset(args, st)
      [] name = "HGET" -> hget(args, st)
      [] name = "HGETALL" -> hgetall(args, st, order)
      [] name = "HDEL" -> hdel(args, st)

\* the iteration orders open to the handler of name on these arguments
OrdersFor(name, args, st) ==
    IF name = "HGETALL" /\ Len(args) = 1 /\ args[1].bulk \in DOMAIN st.hdata
    THEN IterOrders(st.hdata[args[1].bulk])
    ELSE {<<>>}

-----------------------------------------------------------------------------
(* Inputs of the codec: bounded sets of Values.                            *)

MaxBulkLen == 2
MaxArrayLen == 2
MaxFrames == 3

SeqsUpTo(S, n) == UNION {[1..k -> S] : k \in 0..n}

\* payload bytes: a letter and the two terminator bytes
PayloadBytes == {97, CR, LF}
Payloads == SeqsUpTo(PayloadBytes, MaxBulkLen)
Bulks == {BulkV(b) : b \in Payloads}
OtherLeafs ==
    {NullV, SimpleStringV(<<79, 75>>), SimpleStringV(<<>>), ErrorV(<<69, 82, 82>>),
     IntegerV(0), IntegerV(1), IntegerV(12), IntegerV(0 - 1)}
Leafs == Bulks \cup OtherLeafs
\* the BulkStrings tried as array elements: empty, plain, and terminator bytes
ElemBulks == {BulkV(<<>>), BulkV(<<97>>), BulkV(<<CR, LF>>), BulkV(<<CR>>)}
\* a client command: an Array of BulkStrings
CommandFrames ==
    {ArrayV(a) : a \in SeqsUpTo(ElemBulks, MaxArrayLen)}
        \cup {ArrayV(<<b>>) : b \in Bulks}
NestedArrays ==
    {ArrayV(<<x>>) : x \in OtherLeafs \cup CommandFrames}
        \cup {ArrayV(<<ArrayV(<<x>>), y>>) : x \in ElemBulks, y \in Leafs}
\* the constructible Values (every variant but the unknown one)
Values == Leafs \cup CommandFrames \cup NestedArrays

\* frames written back to back on one stream
StreamFrames ==
    {ArrayV(<<>>),
     ArrayV(<<BulkV(<<>>)>>),
     ArrayV(<<BulkV(<<CR, LF>>)>>),
     ArrayV(<<BulkV(<<97>>), BulkV(<<CR, LF, 97>>)>>),
     ArrayV(<<BulkV(<<36, 49, CR, LF>>), BulkV(<<42, 48>>)>>)}
FrameSeqs == SeqsUpTo(StreamFrames, MaxFrames)

-----------------------------------------------------------------------------
(* The codec as a state machine: a writer sends the frames one by one      *)
(* (Writer.Write), then closes; a Resp reader on the other end calls Read  *)
(* repeatedly.                                                             *)

CodecIdle ==
    /\ frames = <<>>
    /\ nw = 0
    /\ stream = <<>>
    /\ rdpos = 0
    /\ outs = <<>>

NoCommand == [name |-> "", args |-> <<>>]

ServerIdle ==
    /\ data = EmptyMap
    /\ hdata = EmptyMap
    /\ cmd = NoCommand
    /\ result = ZeroValue
    /\ reply = <<>>
    /\ lastW = <<>>
    /\ hlastW = <<>>

WorkersIdle ==
    /\ mu = <<>>
    /\ pc = <<>>
    /\ cur = <<>>
    /\ loc = <<>>
    /\ res = <<>>
    /\ ref = <<>>
    /\ expd = <<>>

NoSnap == [valid |-> FALSE, data |-> EmptyMap, hdata |-> EmptyMap]

LogIdle ==
    /\ file = <<>>
    /\ offset = 0
    /\ written = <<>>
    /\ replayed = <<>>
    /\ readErr = ""
    /\ phase = ""
    /\ reads = 0
    /\ snap = NoSnap

NoConn == [pc |-> "", open |-> FALSE]

ConnIdle == conn = NoConn

RunIdle ==
    /\ locks = <<>>
    /\ proc = <<>>
    /\ disk = <<>>
    /\ closed = FALSE

InitCodec ==
    /\ ConnIdle
    /\ RunIdle
    /\ ServerIdle
    /\ WorkersIdle
    /\ LogIdle
    /\ frames \in {<<v>> : v \in Values} \cup FrameSeqs
    /\ nw = 0
    /\ stream = <<>>
    /\ rdpos = 0
    /\ outs = <<>>

\* Writer.Write(v): the bytes of v.Marshal() go onto the stream
WriterWrite ==
    /\ nw < Len(frames)
    /\ stream' = stream \o Marshal(frames[nw + 1])
    /\ nw' = nw + 1
    /\ UNCHANGED <<frames, rdpos, outs, storeVars, serverVars, conn, workerVars, logVars, runVars>>

\* One call of Resp.Read on the closed stream; n is the number of bytes the
\* call consumed.  After a panic the process is gone.
RespRead ==
    /\ nw = Len(frames)
    /\ Len(outs) <= Len(frames)
    /\ IF outs = <<>> THEN TRUE ELSE outs[Len(outs)].err # "panic"
    /\ LET r == Read(stream, rdpos)
       IN  /\ outs' = Append(outs, [err |-> r.err, v |-> r.v, n |-> r.pos - rdpos])
           /\ rdpos' = r.pos
    /\ UNCHANGED <<frames, nw, stream, storeVars, serverVars, conn, workerVars, logVars, runVars>>

NextCodec == WriterWrite \/ RespRead

SpecCodec == InitCodec /\ [][NextCodec]_vars

-----------------------------------------------------------------------------
(* Properties of the codec.                                                *)

Constructible(v) ==
    v.typ \in {TYPE_STRING, TYPE_ERROR, TYPE_INTEGER, TYPE_BULK, TYPE_NULL, TYPE_ARRAY}

\* C1: decoding the bytes Marshal(v) with Resp.Read yields a Value equal to
\* v, for every constructible Value v.
C1_RoundTrip ==
    (Len(frames) = 1 /\ Constructible(frames[1]) /\ Len(outs) >= 1)
        => (outs[1].err = "" /\ outs[1].v = frames[1])

IsCommandFrame(v) ==
    /\ v.typ = TYPE_ARRAY
    /\ \A i \in 1..Len(v.array) : v.array[i].typ = TYPE_BULK

RECURSIVE SumLen(_, _)
SumLen(fs, k) == IF k = 0 THEN 0 ELSE SumLen(fs, k - 1) + Len(Marshal(fs[k]))

\* C2: on the concatenation of the encodings of command frames c1..cn, the
\* i-th Resp.Read returns ci with identical payload bytes and consumes
\* exactly the bytes of that frame, and the call after the last frame
\* returns end-of-stream.
C2_SelfDelimiting ==
    (\A i \in 1..Len(frames) : IsCommandFrame(frames[i]))
        => \A i \in 1..Len(outs) :
              IF i <= Len(frames)
              THEN /\ outs[i].err = ""
                   /\ outs[i].v = frames[i]
                   /\ outs[i].n = Len(Marshal(frames[i]))
                   /\ (i = Len(outs) => rdpos = SumLen(frames, i))
              ELSE outs[i].err = "EOF" /\ outs[i].n = 0

\* C4: the null bulk encodes as the five bytes "$-1\r\n" and the empty bulk
\* as "$0\r\n\r\n"; Resp.Read of the first yields the null value, reading
\* no payload, and of the second an empty, non-null BulkString.
C4_NullVsEmpty ==
    /\ (frames = <<NullV>> /\ nw = 1) => stream = <<BULK, 45, 49, CR, LF>>
    /\ (frames = <<BulkV(<<>>)>> /\ nw = 1) => stream = <<BULK, 48, CR, LF, CR, LF>>
    /\ (frames = <<NullV>> /\ Len(outs) >= 1)
          => (outs[1].err = "" /\ outs[1].v.typ = TYPE_NULL /\ outs[1].n = 5)
    /\ (frames = <<BulkV(<<>>)>> /\ Len(outs) >= 1)
          => (outs[1].err = "" /\ outs[1].v = BulkV(<<>>))

C2_Witness ==
    /\ frames = <<ArrayV(<<BulkV(<<97>>), BulkV(<<CR, LF, 97>>)>>), ArrayV(<<>>),
                  ArrayV(<<BulkV(<<>>)>>)>>
    /\ Len(outs) = 4
    /\ outs[1].v.array[2].bulk = <<CR, LF, 97>>
    /\ outs[4].err = "EOF"

-----------------------------------------------------------------------------
(* The server executing commands one at a time: the handler registered for *)
(* the command runs on the stores and its reply Value is written back with *)
(* Writer.Write.                                                           *)

MaxArgs == 2

Keys == {<<97>>, <<98>>}
Vals == {<<>>, <<49>>}
Hashes == {<<104>>}
Fields == {<<102>>, <<103>>}

BulksOf(S) == {BulkV(x) : x \in S}

\* the argument lists tried for each command, of right and wrong length
ArgLists(name) ==
    LET k == BulkV(<<97>>)
        v == BulkV(<<49>>)
        h == BulkV(<<104>>)
        f == BulkV(<<102>>)
    IN  CASE name = "PING" -> {<<>>, <<k, k>>} \cup {<<x>> : x \in BulksOf(Vals)}
          [] name = "SET" ->
                {<<x, y>> : x \in BulksOf(Keys), y \in BulksOf(Vals)}
                    \cup {<<>>, <<k>>, <<k, v, v>>}
          [] name = "GET" -> {<<x>> : x \in BulksOf(Keys)} \cup {<<>>, <<k, k>>}
          [] name \in {"DEL", "EXISTS"} -> SeqsUpTo(BulksOf(Keys), MaxArgs)
          [] name = "HSET" ->
                {<<x, y, z>> : x \in BulksOf(Hashes), y \in BulksOf(Fields),
                               z \in BulksOf(Vals)}
                    \cup {<<>>, <<h>>, <<h, f>>, <<h, f, v, v>>}
          [] name = "HGET" ->
                {<<x, y>> : x \in BulksOf(Hashes), y \in BulksOf(Fields)}
                    \cup {<<>>, <<h>>, <<h, f, f>>}
          [] name = "HGETALL" ->
                {<<x>> : x \in BulksOf(Hashes)} \cup {<<>>, <<h, f>>}
          [] name = "HDEL" ->
                {<<x>> \o fs : x \in BulksOf(Hashes),
                               fs \in SeqsUpTo(BulksOf(Fields), MaxArgs)}
                    \cup {<<>>}

Commands ==
    UNION {{[name |-> n, args |-> a] : a \in ArgLists(n)} : n \in HandlerNames}

NamedIn(args, from) == {args[i].bulk : i \in from..Len(args)}

NoWrite == [op |-> "NONE", v |-> <<>>]

\* the most recent SET or DEL naming each key, after command c
NoteWrite(lw, c) ==
    IF c.name = "SET" /\ Len(c.args) = 2
    THEN [lw EXCEPT ![c.args[1].bulk] = [op |-> "SET", v |-> c.args[2].bulk]]
    ELSE IF c.name = "DEL"
    THEN [k \in Keys |->
            IF k \in NamedIn(c.args, 1) THEN [op |-> "DEL", v |-> <<>>] ELSE lw[k]]
    ELSE lw

\* the most recent HSET or HDEL naming each field of each hash, after c
NoteHashWrite(hw, c) ==
    IF c.name = "HSET" /\ Len(c.args) = 3
    THEN [hw EXCEPT ![c.args[1].bulk][c.args[2].bulk] =
                        [op |-> "SET", v |-> c.args[3].bulk]]
    ELSE IF c.name = "HDEL" /\ Len(c.args) >= 2
    THEN [hw EXCEPT ![c.args[1].bulk] =
            [f \in Fields |->
                IF f \in NamedIn(c.args, 2) THEN [op |-> "DEL", v |-> <<>>]
                ELSE hw[c.args[1].bulk][f]]]
    ELSE hw

InitServer ==
    /\ ConnIdle
    /\ RunIdle
    /\ CodecIdle
    /\ WorkersIdle
    /\ LogIdle
    /\ data = EmptyMap
    /\ hdata = EmptyMap
    /\ cmd = NoCommand
    /\ result = ZeroValue
    /\ reply = <<>>
    /\ lastW = [k \in Keys |-> NoWrite]
    /\ hlastW = [h \in Hashes |-> [f \in Fields |-> NoWrite]]

\* One command, start to finish: the handler, then the reply on the wire.
Execute(c) ==
    LET st == [data |-> data, hdata |-> hdata]
    IN  \E order \in OrdersFor(c.name, c.args, st) :
            LET r == Handlers(c.name, c.args, st, order)
            IN  /\ data' = r.data
                /\ hdata' = r.hdata
                /\ cmd' = c
                /\ result' = r.result
                /\ reply' = Marshal(r.result)
                /\ lastW' = NoteWrite(lastW, c)
                /\ hlastW' = NoteHashWrite(hlastW, c)
                /\ UNCHANGED <<codecVars, workerVars, logVars, runVars, conn>>

NextServer == \E c \in Commands : Execute(c)

SpecServer == InitServer /\ [][NextServer]_vars

-----------------------------------------------------------------------------
(* Properties of the handlers and the stores.                              *)

\* C3: the reply to DEL, EXISTS and HDEL is the integer tag, the count in
\* decimal ASCII and the terminator; DEL of two keys of which one exists is
\* answered ":1\r\n".
C3_IntegerReply ==
    (cmd.name \in {"DEL", "EXISTS", "HDEL"} /\ result.typ = TYPE_INTEGER)
        => reply = <<INTEGER>> \o Itoa(result.num) \o <<CR, LF>>

\* C5: GET k returns the value of the most recent SET naming k, and Null
\* when k was never set or a DEL naming k came after; SET replies "OK".
C5_GetLatest ==
    /\ (cmd.name = "GET" /\ Len(cmd.args) = 1)
          => LET w == lastW[cmd.args[1].bulk]
             IN  result = IF w.op = "SET" THEN BulkV(w.v) ELSE NullV
    /\ (cmd.name = "SET" /\ Len(cmd.args) = 2) => result = OK

C5_Witness ==
    /\ cmd = [name |-> "GET", args |-> <<BulkV(<<97>>)>>]
    /\ lastW[<<97>>] = [op |-> "SET", v |-> <<>>]
    /\ lastW[<<98>>].op = "DEL"
    /\ result = BulkV(<<>>)
    /\ result # NullV

HashEmptied(h) ==
    /\ \A f \in Fields : hlastW[h][f].op # "SET"
    /\ \E f \in Fields : hlastW[h][f].op = "DEL"

\* C7: a hash name is in the outer map exactly when its inner map has a
\* field; once the last field of a hash is deleted, HGETALL returns the
\* empty Array and HGET returns Null, as for a hash never written.
C7_NoEmptyHash ==
    /\ \A h \in DOMAIN hdata : DOMAIN hdata[h] # {}
    /\ \A h \in Hashes :
          (h \in DOMAIN hdata) <=> (\E f \in Fields : hlastW[h][f].op = "SET")
    /\ \A h \in Hashes :
          (\A f \in Fields : hlastW[h][f].op # "SET") =>
             /\ (cmd.name = "HGETALL" /\ cmd.args = <<BulkV(h)>>)
                    => result = ArrayV(<<>>)
             /\ (cmd.name = "HGET" /\ Len(cmd.args) = 2 /\ cmd.args[1] = BulkV(h))
                    => result = NullV

C7_Witness ==
    /\ HashEmptied(<<104>>)
    /\ \A f \in Fields : hlastW[<<104>>][f].op = "DEL"
    /\ cmd = [name |-> "HGETALL", args |-> <<BulkV(<<104>>)>>]
    /\ result = ArrayV(<<>>)
    /\ <<104>> \notin DOMAIN hdata

\* the argument counts each store command accepts
ArityOK(name, n) ==
    CASE name = "SET" -> n = 2
      [] name = "GET" -> n = 1
      [] name \in {"DEL", "EXISTS"} -> n >= 1
      [] name = "HSET" -> n = 3
      [] name = "HGET" -> n = 2
      [] name = "HGETALL" -> n = 1
      [] name = "HDEL" -> n >= 2
      [] OTHER -> TRUE

\* "ERR wrong number of arguments"
ErrWrongNumber ==
    <<69, 82, 82, 32, 119, 114, 111, 110, 103, 32, 110, 117, 109, 98, 101,
      114, 32, 111, 102, 32, 97, 114, 103, 117, 109, 101, 110, 116, 115>>

StartsWith(b, prefix) ==
    Len(b) >= Len(prefix) /\ SubSeq(b, 1, Len(prefix)) = prefix

\* C11: a store command handler called with an argument count outside its
\* arity returns an Error Value whose text starts with "ERR wrong number
\* of arguments" and leaves the String Store and the Hash Store unchanged.
C11_ArityError ==
    [][(cmd'.name \in HandlerNames \ {"PING"}
            /\ ~ArityOK(cmd'.name, Len(cmd'.args)))
          => /\ result'.typ = TYPE_ERROR
             /\ StartsWith(result'.str, ErrWrongNumber)
             /\ data' = data
             /\ hdata' = hdata]_vars

C11_Witness ==
    /\ cmd = [name |-> "HDEL", args |-> <<BulkV(<<104>>)>>]
    /\ result = WrongArgs(<<104, 100, 101, 108>>)
    /\ <<104>> \in DOMAIN hdata
    /\ <<97>> \in DOMAIN data

\* C12: PING with no argument returns SimpleString "PONG", with one
\* argument a SimpleString echoing it, and with two or more arguments an
\* Error Value.
C12_PingArity ==
    cmd.name = "PING" =>
        /\ Len(cmd.args) = 0 => result = PONG
        /\ Len(cmd.args) = 1 => result = SimpleStringV(cmd.args[1].bulk)
        /\ Len(cmd.args) >= 2 => result.typ = TYPE_ERROR

\* C13: DEL k1..kn returns the Integer counting the distinct named keys
\* that were in the String Store before the command; afterwards no named
\* key is present and every other key keeps its value.
C13_DelCount ==
    [][(cmd'.name = "DEL" /\ Len(cmd'.args) >= 1)
          => LET named == NamedIn(cmd'.args, 1)
             IN  /\ result' = IntegerV(Cardinality(named \cap DOMAIN data))
                 /\ DOMAIN data' = DOMAIN data \ named
                 /\ \A k \in DOMAIN data' : data'[k] = data[k]
                 /\ hdata' = hdata]_vars

C13_Witness ==
    /\ cmd = [name |-> "DEL", args |-> <<BulkV(<<97>>), BulkV(<<97>>)>>]
    /\ result = IntegerV(1)
    /\ <<97>> \notin DOMAIN data
    /\ <<98>> \in DOMAIN data

\* C14: HGETALL h returns an Array of 2*m BulkStrings, m the number of
\* fields of h: each odd position holds a field name, all m of them, and
\* the next position that field's value; the empty Array when h is
\* absent; the Hash Store is not modified.
C14_HGetAll ==
    [][(cmd'.name = "HGETALL" /\ Len(cmd'.args) = 1)
          => LET h == cmd'.args[1].bulk
                 a == result'.array
             IN  /\ hdata' = hdata
                 /\ data' = data
                 /\ result'.typ = TYPE_ARRAY
                 /\ IF h \notin DOMAIN hdata THEN a = <<>>
                    ELSE LET m == Cardinality(DOMAIN hdata[h])
                         IN  /\ Len(a) = 2 * m
                             /\ {a[2 * i - 1].bulk : i \in 1..m} = DOMAIN hdata[h]
                             /\ \A i \in 1..m :
                                   /\ a[2 * i - 1].typ = TYPE_BULK
                                   /\ a[2 * i] = BulkV(hdata[h][a[2 * i - 1].bulk])]_vars

C14_Witness ==
    /\ cmd = [name |-> "HGETALL", args |-> <<BulkV(<<104>>)>>]
    /\ <<104>> \in DOMAIN hdata
    /\ DOMAIN hdata[<<104>>] = Fields
    /\ result = ArrayV(<<BulkV(<<103>>), BulkV(hdata[<<104>>][<<103>>]),
                         BulkV(<<102>>), BulkV(hdata[<<104>>][<<102>>])>>)
    /\ hdata[<<104>>][<<103>>] # hdata[<<104>>][<<102>>]

-----------------------------------------------------------------------------
(* Concurrent workers on the String Store (main.go:88-130).  Each method   *)
(* takes store.mu (sync.RWMutex) in write or read mode, runs its body one  *)
(* statement at a time, and releases the lock on return (defer).           *)

Workers == {"w1", "w2", "w3"}

SetVals == {<<49>>, <<50>>}

StoreOps ==
    {[m |-> "Set", key |-> k, value |-> v] : k \in Keys, v \in SetVals}
        \cup {[m |-> x, key |-> k, value |-> <<>>] :
                  x \in {"Get", "Delete", "Exists"}, k \in Keys}

\* the lock mode each method takes: Lock ("W") or RLock ("R")
LockMode_AllRead(m) == "R"

LockMode(m) == IF m \in {"Set", "Delete"} THEN "W" ELSE "R"

NoWorker == "none"

\* sync.RWMutex: Lock waits for no writer and no readers, RLock for no writer
CanLock(m, mode) ==
    IF mode = "W" THEN m.writer = NoWorker /\ m.readers = {}
    ELSE m.writer = NoWorker

Acquire(m, mode, w) ==
    IF mode = "W" THEN [m EXCEPT !.writer = w]
    ELSE [m EXCEPT !.readers = @ \cup {w}]

Release(m, mode, w) ==
    IF mode = "W" THEN [m EXCEPT !.writer = NoWorker]
    ELSE [m EXCEPT !.readers = @ \ {w}]

NoResult == [m |-> "", value |-> <<>>, ok |-> FALSE]
NoOp == [m |-> "", key |-> <<>>, value |-> <<>>]

\* the sequential map: what one call answers, and the map after it
SeqAnswer(r, o) ==
    CASE o.m = "Set" -> [m |-> "Set", value |-> <<>>, ok |-> TRUE]
      [] o.m = "Get" ->
            IF r[o.key].in THEN [m |-> "Get", value |-> r[o.key].v, ok |-> TRUE]
            ELSE [m |-> "Get", value |-> <<>>, ok |-> FALSE]
      [] o.m = "Delete" -> [m |-> "Delete", value |-> <<>>, ok |-> r[o.key].in]
      [] o.m = "Exists" -> [m |-> "Exists", value |-> <<>>, ok |-> r[o.key].in]

SeqAfter(r, o) ==
    CASE o.m = "Set" -> [r EXCEPT ![o.key] = [in |-> TRUE, v |-> o.value]]
      [] o.m = "Delete" -> [r EXCEPT ![o.key] = [in |-> FALSE, v |-> <<>>]]
      [] OTHER -> r

InitWorkers ==
    /\ ConnIdle
    /\ RunIdle
    /\ CodecIdle
    /\ LogIdle
    /\ data = EmptyMap
    /\ hdata = EmptyMap
    /\ cmd = NoCommand
    /\ result = ZeroValue
    /\ reply = <<>>
    /\ lastW = <<>>
    /\ hlastW = <<>>
    /\ mu = [writer |-> NoWorker, readers |-> {}]
    /\ pc = [w \in Workers |-> "idle"]
    /\ cur = [w \in Workers |-> NoOp]
    /\ loc = [w \in Workers |-> NoResult]
    /\ res = [w \in Workers |-> [op |-> NoOp, ret |-> NoResult]]
    /\ ref = [k \in Keys |-> [in |-> FALSE, v |-> <<>>]]
    /\ expd = [w \in Workers |-> NoResult]

othersThanWorkers == <<codecVars, hdata, serverVars, conn, logVars, runVars>>

\* s.mu.Lock() / s.mu.RLock() at the top of the method o.m
Call(w, o) ==
    /\ pc[w] = "idle"
    /\ CanLock(mu, LockMode(o.m))
    /\ mu' = Acquire(mu, LockMode(o.m), w)
    /\ cur' = [cur EXCEPT ![w] = o]
    /\ pc' = [pc EXCEPT ![w] = "locked"]
    /\ res' = [res EXCEPT ![w] = [op |-> NoOp, ret |-> NoResult]]
    /\ UNCHANGED <<data, loc, ref, expd, othersThanWorkers>>

\* the first statement of the body; for Set, Get and Exists it is the only
\* one, and the call takes effect here
Body(w) ==
    /\ pc[w] = "locked"
    /\ LET o == cur[w]
       IN  CASE o.m = "Set" ->
                  /\ data' = RedisStore_Set(data, o.key, o.value)
                  /\ loc' = [loc EXCEPT ![w] = [m |-> "Set", value |-> <<>>, ok |-> TRUE]]
                  /\ pc' = [pc EXCEPT ![w] = "ready"]
                  /\ ref' = SeqAfter(ref, o)
                  /\ expd' = [expd EXCEPT ![w] = SeqAnswer(ref, o)]
             [] o.m = "Get" ->
                  /\ loc' = [loc EXCEPT ![w] =
                        [m |-> "Get", value |-> RedisStore_Get(data, o.key).value,
                         ok |-> RedisStore_Get(data, o.key).ok]]
                  /\ pc' = [pc EXCEPT ![w] = "ready"]
                  /\ ref' = SeqAfter(ref, o)
                  /\ expd' = [expd EXCEPT ![w] = SeqAnswer(ref, o)]
                  /\ UNCHANGED data
             [] o.m = "Exists" ->
                  /\ loc' = [loc EXCEPT ![w] =
                        [m |-> "Exists", value |-> <<>>,
                         ok |-> RedisStore_Exists(data, o.key)]]
                  /\ pc' = [pc EXCEPT ![w] = "ready"]
                  /\ ref' = SeqAfter(ref, o)
                  /\ expd' = [expd EXCEPT ![w] = SeqAnswer(ref, o)]
                  /\ UNCHANGED data
             [] o.m = "Delete" ->
                  \* _, existed := s.data[key]
                  /\ loc' = [loc EXCEPT ![w] =
                        [m |-> "Delete", value |-> <<>>,
                         ok |-> RedisStore_Delete(data, o.key).existed]]
                  /\ pc' = [pc EXCEPT ![w] = "read"]
                  /\ UNCHANGED <<data, ref, expd>>
    /\ UNCHANGED <<mu, cur, res, othersThanWorkers>>

\* the second statement of Delete, delete(s.data, key): it takes effect here
DeleteBody(w) ==
    /\ pc[w] = "read"
    /\ data' = RedisStore_Delete(data, cur[w].key).data
    /\ pc' = [pc EXCEPT ![w] = "ready"]
    /\ ref' = SeqAfter(ref, cur[w])
    /\ expd' = [expd EXCEPT ![w] = SeqAnswer(ref, cur[w])]
    /\ UNCHANGED <<mu, cur, loc, res, othersThanWorkers>>

\* return: the deferred Unlock / RUnlock runs and the caller has the result
Return(w) ==
    /\ pc[w] = "ready"
    /\ mu' = Release(mu, LockMode(cur[w].m), w)
    /\ res' = [res EXCEPT ![w] = [op |-> cur[w], ret |-> loc[w]]]
    /\ pc' = [pc EXCEPT ![w] = "idle"]
    /\ cur' = [cur EXCEPT ![w] = NoOp]
    /\ loc' = [loc EXCEPT ![w] = NoResult]
    /\ expd' = [expd EXCEPT ![w] = NoResult]
    /\ UNCHANGED <<data, ref, othersThanWorkers>>

NextWorkers ==
    \E w \in Workers :
        \/ \E o \in StoreOps : Call(w, o)
        \/ Body(w)
        \/ DeleteBody(w)
        \/ Return(w)

SpecWorkers == InitWorkers /\ [][NextWorkers]_vars

InWrite(w) == pc[w] # "idle" /\ cur[w].m \in {"Set", "Delete"}
InRead(w) == pc[w] # "idle" /\ cur[w].m \in {"Get", "Exists"}

\* C6: a writer excludes all readers and writers, and every result and
\* the store itself are those of the calls run one at a time in the order
\* of their effects (each effect lies between the call and its return, so
\* the order respects every worker's program order); no update is lost.
C6_Linearizable ==
    /\ \A w \in Workers :
          InWrite(w) => \A x \in Workers \ {w} : ~InWrite(x) /\ ~InRead(x)
    /\ \A w \in Workers : pc[w] = "ready" => loc[w] = expd[w]
    /\ \A k \in Keys :
          /\ (k \in DOMAIN data) <=> ref[k].in
          /\ (k \in DOMAIN data) => data[k] = ref[k].v

\* both keys are set, one worker has just read one of them back and the
\* other is inside a Delete of the second, holding the write lock alone
C6_Witness ==
    /\ res["w1"] = [op |-> [m |-> "Get", key |-> <<97>>, value |-> <<>>],
                     ret |-> [m |-> "Get", value |-> <<50>>, ok |-> TRUE]]
    /\ pc["w1"] = "idle"
    /\ pc["w2"] = "read"
    /\ cur["w2"] = [m |-> "Delete", key |-> <<98>>, value |-> <<>>]
    /\ loc["w2"].ok
    /\ mu = [writer |-> "w2", readers |-> {}]
    /\ DOMAIN data = Keys

-----------------------------------------------------------------------------
(* The append-only file (aof.go).  NewAOF opens the file read-write        *)
(* (os.O_CREATE|os.O_RDWR), so the handle starts at offset 0 and           *)
(* file.Write writes at the handle's current offset.                       *)

\* the size of the buffer bufio.NewReader gives the Resp reader
BufSize == 4096

Max(a, b) == IF a >= b THEN a ELSE b
Min(a, b) == IF a <= b THEN a ELSE b

\* os.File.Write(b) with the handle at offset off: the file afterwards
FileWriteAt(f, off, b) ==
    [i \in 1..Max(Len(f), off + Len(b)) |->
        IF i > off /\ i <= off + Len(b) THEN b[i - off] ELSE f[i]]

\* NewAOF: the offset of the handle just opened
NewAOF_Offset == 0

\* Aof.Write(value): the file and the handle's offset afterwards
AofWrite(f, off, value) ==
    [file |-> FileWriteAt(f, off, Marshal(value)),
     offset |-> off + Len(Marshal(value))]

RECURSIVE aofReadLoop(_, _, _)
\* the loop of Aof.Read from reader position p; acc holds the Values given
\* to the callback so far.  touched is the number of bytes the buffered
\* reader had to ask the file for.
aofReadLoop(f, p, acc) ==
    LET r == Read(f, p)
    IN  IF r.err = "EOF"
        THEN [values |-> acc, err |-> "", touched |-> Len(f) + 1]
        ELSE IF r.err # ""
        THEN [values |-> acc, err |-> r.err, touched |-> r.pos]
        ELSE aofReadLoop(f, r.pos, Append(acc, r.v))

\* Aof.Read stopping after the first callback
AofRead_FirstOnly(f) ==
    LET r == Read(f, 0)
    IN  [values |-> IF r.err = "" THEN <<r.v>> ELSE <<>>,
         err |-> IF r.err = "EOF" THEN "" ELSE r.err,
         offset |-> Min(Len(f), BufSize)]

\* Aof.Read(callback): Seek to 0, a fresh buffered Resp reader, then the
\* loop.  The reader fills its buffer BufSize bytes at a time, which moves
\* the handle's offset.
AofRead(f) ==
    LET r == aofReadLoop(f, 0, <<>>)
    IN  [values |-> r.values, err |-> r.err,
         offset |-> Min(Len(f), BufSize * ((r.touched + BufSize - 1) \div BufSize))]

NameBytes(name) ==
    CASE name = "PING" -> <<80, 73, 78, 71>>
      [] name = "EXISTS" -> <<69, 88, 73, 83, 84, 83>>
      [] name = "SET" -> <<83, 69, 84>>
      [] name = "GET" -> <<71, 69, 84>>
      [] name = "DEL" -> <<68, 69, 76>>
      [] name = "HSET" -> <<72, 83, 69, 84>>
      [] name = "HGET" -> <<72, 71, 69, 84>>
      [] name = "HGETALL" -> <<72, 71, 69, 84, 65, 76, 76>>
      [] name = "HDEL" -> <<72, 68, 69, 76>>

\* strings.ToUpper on ASCII bytes
ToUpper(b) == [i \in 1..Len(b) |-> IF b[i] >= 97 /\ b[i] <= 122 THEN b[i] - 32 ELSE b[i]]

\* Command dispatch on a decoded frame: the upper-cased first element names
\* the handler, the rest are its arguments; anything else changes nothing.
Dispatch(v, st) ==
    IF v.typ # TYPE_ARRAY \/ Len(v.array) = 0 THEN st
    ELSE LET name == ToUpper(v.array[1].bulk)
             args == Tail(v.array)
             known == {n \in HandlerNames : NameBytes(n) = name}
         IN  IF known = {} THEN st
             ELSE LET n == CHOOSE x \in known : TRUE
                      order == CHOOSE o \in OrdersFor(n, args, st) : TRUE
                      r == Handlers(n, args, st, order)
                  IN  [data |-> r.data, hdata |-> r.hdata]

RECURSIVE ApplyAll(_, _, _)
\* the callback applied to values[i..] in order
ApplyAll(values, i, st) ==
    IF i > Len(values) THEN st
    ELSE ApplyAll(values, i + 1, Dispatch(values[i], st))

RECURSIVE ConcatMarshal(_, _)
\* the encodings of the first k Values of vs, back to back
ConcatMarshal(vs, k) ==
    IF k = 0 THEN <<>> ELSE ConcatMarshal(vs, k - 1) \o Marshal(vs[k])

MaxLog == 2
MaxReads == 2

Frame(nameBytes, strs) ==
    ArrayV(<<BulkV(nameBytes)>> \o [i \in 1..Len(strs) |-> BulkV(strs[i])])

\* the write commands that reach the log
LogFrames ==
    {Frame(<<83, 69, 84>>, <<<<97>>, <<49>>>>),
     Frame(<<83, 69, 84>>, <<<<98>>, <<50>>>>),
     Frame(<<83, 69, 84>>, <<<<97>>, <<>>>>),
     Frame(<<115, 101, 116>>, <<<<98>>, <<49>>>>),
     Frame(<<83, 69, 84>>, <<<<97>>>>),
     Frame(<<68, 69, 76>>, <<<<97>>>>),
     Frame(<<68, 69, 76>>, <<<<98>>, <<97>>>>),
     Frame(<<72, 83, 69, 84>>, <<<<104>>, <<102>>, <<49>>>>),
     Frame(<<72, 83, 69, 84>>, <<<<104>>, <<103>>, <<>>>>),
     Frame(<<72, 68, 69, 76>>, <<<<104>>, <<102>>>>),
     Frame(<<72, 68, 69, 76>>, <<<<104>>, <<103>>, <<102>>>>)}

StringStores == UNION {[S -> Vals] : S \in SUBSET Keys}
InnerMaps == UNION {[F -> Vals] : F \in (SUBSET Fields) \ {{}}}
HashStores == UNION {[H -> InnerMaps] : H \in SUBSET Hashes}

othersThanLog == <<codecVars, serverVars, conn, workerVars, runVars>>

NotServing ==
    /\ cmd = NoCommand
    /\ result = ZeroValue
    /\ reply = <<>>
    /\ lastW = <<>>
    /\ hlastW = <<>>

\* A whole call of Aof.Read with the dispatching callback.
AofReadCall ==
    \E r \in {AofRead(file)} :
    \E st \in {ApplyAll(r.values, 1, [data |-> data, hdata |-> hdata])} :
        /\ data' = st.data
        /\ hdata' = st.hdata
        /\ replayed' = r.values
        /\ readErr' = r.err
        /\ offset' = r.offset
        /\ reads' = reads + 1
        /\ UNCHANGED <<file, written, othersThanLog>>

\* A whole call of Aof.Write(v).
AofWriteCall(v) ==
    \E w \in {AofWrite(file, offset, v)} :
        /\ file' = w.file
        /\ offset' = w.offset
        /\ written' = Append(written, v)
        /\ UNCHANGED <<replayed, readErr, reads, othersThanLog>>

-----------------------------------------------------------------------------
(* Replaying one log more than once on stores in any state.                *)

InitReplay ==
    /\ ConnIdle
    /\ RunIdle
    /\ CodecIdle
    /\ WorkersIdle
    /\ NotServing
    /\ written \in SeqsUpTo(LogFrames, MaxLog)
    /\ file = ConcatMarshal(written, Len(written))
    /\ data \in StringStores
    /\ hdata \in HashStores
    /\ offset = NewAOF_Offset
    /\ replayed = <<>>
    /\ readErr = ""
    /\ phase = "boot"
    /\ reads = 0
    /\ snap = NoSnap

\* snap keeps the stores as the first replay left them
ReplayLog ==
    /\ reads < MaxReads
    /\ AofReadCall
    /\ snap' = IF reads = 0 THEN [valid |-> TRUE, data |-> data', hdata |-> hdata']
               ELSE snap
    /\ phase' = "replayed"

NextReplay == ReplayLog

SpecReplay == InitReplay /\ [][NextReplay]_vars

\* C8: applying a sequence of write commands a second time leaves both
\* stores as the first application left them, whatever the stores held
\* at the start.
C8_ReplayIdempotent ==
    reads >= 2 =>
        /\ replayed = written
        /\ data = snap.data
        /\ hdata = snap.hdata

C8_Witness ==
    /\ reads = 2
    /\ written = <<Frame(<<83, 69, 84>>, <<<<97>>, <<>>>>),
                   Frame(<<72, 68, 69, 76>>, <<<<104>>, <<103>>, <<102>>>>)>>
    /\ replayed = written
    /\ data = [k \in Keys |-> IF k = <<97>> THEN <<>> ELSE <<49>>]
    /\ hdata = EmptyMap

-----------------------------------------------------------------------------
(* A server run over the log: replay at startup, then every write command  *)
(* is dispatched and handed to Aof.Write; the process may stop at any      *)
(* time and start again on the same file.                                  *)

InitRecovery ==
    /\ ConnIdle
    /\ RunIdle
    /\ CodecIdle
    /\ WorkersIdle
    /\ NotServing
    /\ data = EmptyMap
    /\ hdata = EmptyMap
    /\ file = <<>>
    /\ offset = NewAOF_Offset
    /\ written = <<>>
    /\ replayed = <<>>
    /\ readErr = ""
    /\ phase = "boot"
    /\ reads = 0
    /\ snap = NoSnap

\* startup: Aof.Read with the dispatching callback
Startup ==
    /\ phase = "boot"
    /\ AofReadCall
    /\ phase' = "replayed"
    /\ UNCHANGED snap

\* a write command arrives: dispatch, then Aof.Write
LiveWrite(v) ==
    /\ phase \in {"replayed", "live"}
    /\ Len(written) < MaxLog
    /\ \E st \in {Dispatch(v, [data |-> data, hdata |-> hdata])} :
          /\ data' = st.data
          /\ hdata' = st.hdata
    /\ \E w \in {AofWrite(file, offset, v)} :
          /\ file' = w.file
          /\ offset' = w.offset
    /\ written' = Append(written, v)
    /\ phase' = "live"
    /\ UNCHANGED <<replayed, readErr, reads, snap, othersThanLog>>

\* the process stops and starts again: empty stores, NewAOF on the same
\* file.  snap keeps the stores of the run that ended.
Restart ==
    /\ phase \in {"replayed", "live"}
    /\ snap' = [valid |-> TRUE, data |-> data, hdata |-> hdata]
    /\ data' = EmptyMap
    /\ hdata' = EmptyMap
    /\ offset' = NewAOF_Offset
    /\ replayed' = <<>>
    /\ readErr' = ""
    /\ reads' = 0
    /\ phase' = "boot"
    /\ UNCHANGED <<file, written, othersThanLog>>

NextRecovery ==
    \/ Startup
    \/ \E v \in LogFrames : LiveWrite(v)
    \/ Restart

SpecRecovery == InitRecovery /\ [][NextRecovery]_vars

\* C9: after a restart, the replay hands the callback exactly the Values
\* that were written, in the order written, without error, and dispatching
\* them from empty stores gives the stores the run before the restart had.
C9_CrashRecovery ==
    (phase = "replayed" /\ snap.valid) =>
        /\ readErr = ""
        /\ replayed = written
        /\ data = snap.data
        /\ hdata = snap.hdata

C9_Witness ==
    /\ phase = "replayed"
    /\ snap.valid
    /\ written = <<Frame(<<83, 69, 84>>, <<<<97>>, <<49>>>>),
                   Frame(<<83, 69, 84>>, <<<<98>>, <<50>>>>)>>
    /\ replayed = written
    /\ RedisStore_Get(data, <<97>>) = [value |-> <<49>>, ok |-> TRUE]
    /\ RedisStore_Get(data, <<98>>) = [value |-> <<50>>, ok |-> TRUE]

-----------------------------------------------------------------------------
(* NewAOF, Aof.Read and Aof.Write called in any order on a file that       *)
(* already holds records.                                                  *)

InitAof ==
    /\ ConnIdle
    /\ RunIdle
    /\ CodecIdle
    /\ WorkersIdle
    /\ NotServing
    /\ written \in SeqsUpTo(LogFrames, MaxLog - 1) \ {<<>>}
    /\ file = ConcatMarshal(written, Len(written))
    /\ data = EmptyMap
    /\ hdata = EmptyMap
    /\ offset = NewAOF_Offset
    /\ replayed = <<>>
    /\ readErr = ""
    /\ phase = "open"
    /\ reads = 0
    /\ snap = NoSnap

\* NewAOF on the same path again
AofOpen ==
    /\ reads > 0
    /\ offset' = NewAOF_Offset
    /\ reads' = 0
    /\ UNCHANGED <<file, written, replayed, readErr, phase, snap, storeVars, othersThanLog>>

AofReadOp ==
    /\ reads < MaxReads
    /\ AofReadCall
    /\ UNCHANGED <<phase, snap>>

AofWriteOp(v) ==
    /\ Len(written) < MaxLog
    /\ AofWriteCall(v)
    /\ UNCHANGED <<phase, snap, storeVars>>

NextAof ==
    \/ AofOpen
    \/ AofReadOp
    \/ \E v \in LogFrames : AofWriteOp(v)

SpecAof == InitAof /\ [][NextAof]_vars

\* C10: the log is append-only: after any sequence of NewAOF, Aof.Read and
\* Aof.Write calls the file is the concatenation of the encodings of the
\* records it held and of the Values written, in arrival order.
C10_AppendOnly == file = ConcatMarshal(written, Len(written))

-----------------------------------------------------------------------------
(* Resp.Read on arbitrary bytes: the stream is put together from pieces of *)
(* the wire format (type tags with counts, terminators, stray bytes), so   *)
(* it may be well formed, truncated or malformed.                          *)

MaxTokens == 4

Tokens ==
    {<<ARRAY, 48>>, <<ARRAY, 49>>, <<ARRAY, 45, 49>>,
     <<BULK, 48>>, <<BULK, 49>>, <<BULK, 45, 49>>,
     <<CR, LF>>, <<CR, 97>>, <<CR>>, <<97>>, <<STRING_>>}

RECURSIVE Flatten(_, _)
\* the first k pieces of ts, back to back
Flatten(ts, k) == IF k = 0 THEN <<>> ELSE Flatten(ts, k - 1) \o ts[k]

InitDecoder ==
    /\ ConnIdle
    /\ RunIdle
    /\ ServerIdle
    /\ WorkersIdle
    /\ LogIdle
    /\ frames = <<>>
    /\ nw = 0
    /\ stream \in {Flatten(ts, Len(ts)) : ts \in SeqsUpTo(Tokens, MaxTokens)}
    /\ rdpos = 0
    /\ outs = <<>>

\* One call of Resp.Read by a loop that reads until the first error.
RespReadNext ==
    /\ IF outs = <<>> THEN TRUE ELSE outs[Len(outs)].err = ""
    /\ \E r \in {Read(stream, rdpos)} :
          /\ outs' = Append(outs, [err |-> r.err, v |-> r.v, n |-> r.pos - rdpos])
          /\ rdpos' = r.pos
    /\ UNCHANGED <<frames, nw, stream, storeVars, serverVars, conn, workerVars, logVars, runVars>>

NextDecoder == RespReadNext

SpecDecoder == InitDecoder /\ [][NextDecoder]_vars

\* C17: Resp.Read returns io.EOF only when the stream ends at a value
\* boundary, that is when the call consumed no byte; a stream that ends
\* inside a value yields a different error.
C17_EofAtBoundary ==
    \A i \in 1..Len(outs) : outs[i].err = "EOF" => outs[i].n = 0

\* C18: Resp.Read ends by returning a Value or an error on every input,
\* never by a panic.
C18_NeverPanics ==
    \A i \in 1..Len(outs) : outs[i].err # "panic"

\* C19: a line, and the trailer of a bulk payload, is accepted only when it
\* ends in CR LF: the last two bytes a successful Resp.Read consumed (the
\* terminator of its last line or payload) are CR followed by LF.
C19_CrLfTerminator ==
    (outs # <<>> /\ outs[Len(outs)].err = "")
        => (stream[rdpos - 1] = CR /\ stream[rdpos] = LF)

-----------------------------------------------------------------------------
(* Replay of a log whose well-formed records are followed by bytes that    *)
(* are not a record: a record cut short, a tag the decoder does not know,  *)
(* a negative length, a line ended by CR and another byte.                 *)

ProperPrefixes(b) == {SubSeq(b, 1, k) : k \in 1..(Len(b) - 1)}

TornTails ==
    ProperPrefixes(Marshal(Frame(<<68, 69, 76>>, <<<<97>>>>)))
        \cup {<<STRING_, 79, 75, CR, LF>>, <<BULK, 45, 49, CR, LF>>,
              <<ARRAY, 48, CR, 97>>, <<120>>}

InitTornLog ==
    /\ ConnIdle
    /\ RunIdle
    /\ CodecIdle
    /\ WorkersIdle
    /\ NotServing
    /\ written \in SeqsUpTo(LogFrames, MaxLog)
    /\ \E tail \in {<<>>} \cup TornTails :
          file = ConcatMarshal(written, Len(written)) \o tail
    /\ data = EmptyMap
    /\ hdata = EmptyMap
    /\ offset = NewAOF_Offset
    /\ replayed = <<>>
    /\ readErr = ""
    /\ phase = "boot"
    /\ reads = 0
    /\ snap = NoSnap

SpecTornLog == InitTornLog /\ [][NextReplay]_vars

\* C16: Aof.Read passes exactly the well-formed records before the first
\* malformed byte to the callback, in order, and returns a non-nil error
\* when malformed bytes follow them and nil when none do.
C16_StopAtError ==
    reads >= 1 =>
        /\ replayed = written
        /\ file = ConcatMarshal(written, Len(written)) => readErr = ""
        /\ file # ConcatMarshal(written, Len(written)) => readErr \notin {"", "panic"}

-----------------------------------------------------------------------------
(* The running process, one lock operation at a time.  The goroutines are  *)
(* main (replay at startup through Aof.Read, and Aof.Close at shutdown),   *)
(* the sync goroutine NewAOF starts, and one worker per connection, which  *)
(* runs the handler of a command and then Aof.Write.  Every store method   *)
(* locks its store's mutex on entry and unlocks it on return; Aof.Read,    *)
(* Aof.Write, Aof.Close and the sync goroutine do so with aof.mu.          *)

Conns == {"c1", "c2"}
Goroutines == {"main", "sync"} \cup Conns

Free == [writer |-> NoWorker, readers |-> {}]

\* the locks goroutine p holds
HeldBy(p) == {l \in DOMAIN locks : locks[l].writer = p \/ p \in locks[l].readers}

\* the lock mode each HashStore method takes
HashLockMode(m) == IF m \in {"Set", "Delete"} THEN "W" ELSE "R"

CallMode(c) == IF c.lock = "store" THEN LockMode(c.m) ELSE HashLockMode(c.m)

\* the store method calls the handler of command frame v makes, in order
StoreCalls(v) ==
    IF v.typ # TYPE_ARRAY \/ Len(v.array) = 0 THEN <<>>
    ELSE LET name == ToUpper(v.array[1].bulk)
             args == Tail(v.array)
             n == Len(args)
         IN  CASE name = NameBytes("SET") /\ n = 2 ->
                    <<[lock |-> "store", m |-> "Set", a |-> <<args[1].bulk, args[2].bulk>>]>>
               [] name = NameBytes("GET") /\ n = 1 ->
                    <<[lock |-> "store", m |-> "Get", a |-> <<args[1].bulk>>]>>
               [] name = NameBytes("DEL") ->
                    [i \in 1..n |-> [lock |-> "store", m |-> "Delete", a |-> <<args[i].bulk>>]]
               [] name = NameBytes("EXISTS") ->
                    [i \in 1..n |-> [lock |-> "store", m |-> "Exists", a |-> <<args[i].bulk>>]]
               [] name = NameBytes("HSET") /\ n = 3 ->
                    <<[lock |-> "hash", m |-> "Set",
                       a |-> <<args[1].bulk, args[2].bulk, args[3].bulk>>]>>
               [] name = NameBytes("HGET") /\ n = 2 ->
                    <<[lock |-> "hash", m |-> "Get", a |-> <<args[1].bulk, args[2].bulk>>]>>
               [] name = NameBytes("HGETALL") /\ n = 1 ->
                    <<[lock |-> "hash", m |-> "GetAll", a |-> <<args[1].bulk>>]>>
               [] name = NameBytes("HDEL") /\ n >= 2 ->
                    [i \in 1..(n - 1) |->
                        [lock |-> "hash", m |-> "Delete", a |-> <<args[1].bulk, args[i + 1].bulk>>]]
               [] OTHER -> <<>>

\* the two maps after store method call c
ApplyCall(c, st) ==
    CASE c.lock = "store" /\ c.m = "Set" ->
            [st EXCEPT !.data = RedisStore_Set(st.data, c.a[1], c.a[2])]
      [] c.lock = "store" /\ c.m = "Delete" ->
            [st EXCEPT !.data = RedisStore_Delete(st.data, c.a[1]).data]
      [] c.lock = "hash" /\ c.m = "Set" ->
            [st EXCEPT !.hdata = HashStore_Set(st.hdata, c.a[1], c.a[2], c.a[3])]
      [] c.lock = "hash" /\ c.m = "Delete" ->
            [st EXCEPT !.hdata = HashStore_Delete(st.hdata, c.a[1], c.a[2]).data]
      [] OTHER -> st

\* every Delete taken to return true, whether or not the key was there
DeleteReturnsTrue_Always(c, st) == c.m = "Delete"

\* whether store method call c is a Delete that returns true
DeleteReturnsTrue(c, st) ==
    CASE c.lock = "store" /\ c.m = "Delete" -> RedisStore_Delete(st.data, c.a[1]).existed
      [] c.lock = "hash" /\ c.m = "Delete" ->
            HashStore_Delete(st.hdata, c.a[1], c.a[2]).existed
      [] OTHER -> FALSE

\* file.Sync(): what is on stable storage afterwards; on a closed file
\* Sync fails and changes nothing
FileSync_Nothing(f, d, isClosed) == d

FileSync(f, d, isClosed) == IF isClosed THEN d ELSE f

\* the write family: the commands that go to the log
IsWriteCommand(v) ==
    /\ v.typ = TYPE_ARRAY
    /\ Len(v.array) > 0
    /\ ToUpper(v.array[1].bulk) \in {NameBytes(x) : x \in {"SET", "DEL", "HSET", "HDEL"}}

\* the commands the connections send
LiveFrames ==
    {Frame(<<83, 69, 84>>, <<<<97>>, <<49>>>>),
     Frame(<<68, 69, 76>>, <<<<97>>>>),
     Frame(<<72, 68, 69, 76>>, <<<<104>>, <<102>>>>),
     Frame(<<71, 69, 84>>, <<<<97>>>>)}

\* the records the log may hold when the process starts
BootFrames ==
    {Frame(<<83, 69, 84>>, <<<<97>>, <<49>>>>),
     Frame(<<72, 83, 69, 84>>, <<<<104>>, <<102>>, <<49>>>>)}

\* count is the local variable count of del and hdel
Resting(at) ==
    [pc |-> at, todo |-> <<>>, in |-> FALSE, rpos |-> 0, v |-> ZeroValue, count |-> 0]

othersThanRun == <<codecVars, serverVars, conn, workerVars, phase, reads, snap>>

InitRun ==
    /\ ConnIdle
    /\ CodecIdle
    /\ WorkersIdle
    /\ NotServing
    /\ written \in SeqsUpTo(BootFrames, MaxLog - 1)
    /\ file = ConcatMarshal(written, Len(written))
    /\ disk = file
    /\ closed = FALSE
    /\ data = EmptyMap
    /\ hdata = EmptyMap
    /\ offset = NewAOF_Offset
    /\ replayed = <<>>
    /\ readErr = ""
    /\ phase = "run"
    /\ reads = 0
    /\ snap = NoSnap
    /\ locks = [l \in {"aof", "store", "hash"} |-> Free]
    /\ proc = [p \in Goroutines |->
                 Resting(IF p = "main" THEN "boot" ELSE IF p = "sync" THEN "sleep" ELSE "idle")]

\* Aof.Read: aof.mu.Lock(), Seek to the start, a fresh reader
ReadLock ==
    /\ proc["main"].pc = "boot"
    /\ CanLock(locks["aof"], "W")
    /\ locks' = [locks EXCEPT !["aof"] = Acquire(@, "W", "main")]
    /\ proc' = [proc EXCEPT !["main"] = Resting("read")]
    /\ offset' = 0
    /\ replayed' = <<>>
    /\ UNCHANGED <<file, written, readErr, disk, closed, storeVars, othersThanRun>>

\* Aof.Read: one resp.Read(); the callback is entered, or the loop ends
\* and the deferred Unlock runs
ReadNext ==
    /\ proc["main"].pc = "read"
    /\ \E r \in {Read(file, proc["main"].rpos)} :
          \/ /\ r.err = ""
             /\ proc' = [proc EXCEPT !["main"] =
                            [pc |-> "callback", todo |-> StoreCalls(r.v), in |-> FALSE,
                             rpos |-> r.pos, v |-> r.v, count |-> 0]]
             /\ replayed' = Append(replayed, r.v)
             /\ UNCHANGED <<locks, offset, readErr>>
          \/ /\ r.err # ""
             /\ proc' = [proc EXCEPT !["main"] =
                            Resting(IF r.err = "panic" THEN "dead" ELSE "serve")]
             /\ locks' = [locks EXCEPT !["aof"] = Release(@, "W", "main")]
             /\ offset' = Min(Len(file), BufSize * ((r.pos + BufSize) \div BufSize))
             /\ readErr' = IF r.err = "EOF" THEN "" ELSE r.err
             /\ UNCHANGED replayed
    /\ UNCHANGED <<file, written, disk, closed, storeVars, othersThanRun>>

\* the callback returns to the loop of Aof.Read
CallbackReturn ==
    /\ proc["main"].pc = "callback"
    /\ proc["main"].todo = <<>>
    /\ proc' = [proc EXCEPT !["main"].pc = "read"]
    /\ UNCHANGED <<locks, disk, closed, storeVars, logVars, codecVars, serverVars, conn, workerVars>>

\* entry of a store method: mu.Lock() or mu.RLock()
StoreLock(p) ==
    /\ proc[p].pc \in {"callback", "handle"}
    /\ proc[p].todo # <<>>
    /\ ~proc[p].in
    /\ LET c == Head(proc[p].todo)
       IN  /\ CanLock(locks[c.lock], CallMode(c))
           /\ locks' = [locks EXCEPT ![c.lock] = Acquire(@, CallMode(c), p)]
    /\ proc' = [proc EXCEPT ![p].in = TRUE]
    /\ UNCHANGED <<disk, closed, storeVars, logVars, codecVars, serverVars, conn, workerVars>>

\* body and return of a store method: the map is updated, the deferred
\* Unlock runs
StoreUnlock(p) ==
    /\ proc[p].in
    /\ LET c == Head(proc[p].todo)
           st == ApplyCall(c, [data |-> data, hdata |-> hdata])
       IN  /\ data' = st.data
           /\ hdata' = st.hdata
           /\ locks' = [locks EXCEPT ![c.lock] = Release(@, CallMode(c), p)]
    /\ proc' = [proc EXCEPT ![p].in = FALSE, ![p].todo = Tail(@),
                            ![p].count =
                                IF DeleteReturnsTrue(Head(proc[p].todo),
                                                     [data |-> data, hdata |-> hdata])
                                THEN @ + 1 ELSE @]
    /\ UNCHANGED <<disk, closed, logVars, codecVars, serverVars, conn, workerVars>>

\* a connection worker decodes a command and enters its handler
Receive(c, v) ==
    /\ proc["main"].pc = "serve"
    /\ proc[c].pc = "idle"
    /\ Len(written) + Cardinality({x \in Conns : proc[x].pc # "idle"}) <= MaxLog
    /\ proc' = [proc EXCEPT ![c] =
                    [pc |-> "handle", todo |-> StoreCalls(v), in |-> FALSE,
                     rpos |-> 0, v |-> v, count |-> 0]]
    /\ UNCHANGED <<locks, disk, closed, storeVars, logVars, codecVars, serverVars, conn, workerVars>>

\* the handler has returned: a write command goes on to Aof.Write
HandlerReturn(c) ==
    /\ proc[c].pc = "handle"
    /\ proc[c].todo = <<>>
    /\ proc' = [proc EXCEPT ![c] =
                    IF IsWriteCommand(proc[c].v) THEN [@ EXCEPT !.pc = "log"]
                    ELSE Resting("idle")]
    /\ UNCHANGED <<locks, disk, closed, storeVars, logVars, codecVars, serverVars, conn, workerVars>>

\* Aof.Write: aof.mu.Lock()
WriteLock(c) ==
    /\ proc[c].pc = "log"
    /\ CanLock(locks["aof"], "W")
    /\ locks' = [locks EXCEPT !["aof"] = Acquire(@, "W", c)]
    /\ proc' = [proc EXCEPT ![c].pc = "write"]
    /\ UNCHANGED <<disk, closed, storeVars, logVars, codecVars, serverVars, conn, workerVars>>

\* Aof.Write: file.Write and the deferred Unlock; on a closed file the
\* write fails and nothing is written
WriteUnlock(c) ==
    /\ proc[c].pc = "write"
    /\ IF closed THEN UNCHANGED <<file, offset, written>>
       ELSE \E w \in {AofWrite(file, offset, proc[c].v)} :
               /\ file' = w.file
               /\ offset' = w.offset
               /\ written' = Append(written, proc[c].v)
    /\ locks' = [locks EXCEPT !["aof"] = Release(@, "W", c)]
    /\ proc' = [proc EXCEPT ![c] = Resting("idle")]
    /\ UNCHANGED <<replayed, readErr, disk, closed, storeVars, othersThanRun>>

\* the sync goroutine: aof.mu.Lock()
SyncLock ==
    /\ proc["sync"].pc = "sleep"
    /\ CanLock(locks["aof"], "W")
    /\ locks' = [locks EXCEPT !["aof"] = Acquire(@, "W", "sync")]
    /\ proc' = [proc EXCEPT !["sync"].pc = "sync"]
    /\ UNCHANGED <<disk, closed, storeVars, logVars, codecVars, serverVars, conn, workerVars>>

\* the sync goroutine: file.Sync(), aof.mu.Unlock(), then it sleeps
SyncUnlock ==
    /\ proc["sync"].pc = "sync"
    /\ disk' = FileSync(file, disk, closed)
    /\ locks' = [locks EXCEPT !["aof"] = Release(@, "W", "sync")]
    /\ proc' = [proc EXCEPT !["sync"].pc = "sleep"]
    /\ UNCHANGED <<closed, storeVars, logVars, codecVars, serverVars, conn, workerVars>>

\* Aof.Close: aof.mu.Lock()
CloseLock ==
    /\ proc["main"].pc = "serve"
    /\ CanLock(locks["aof"], "W")
    /\ locks' = [locks EXCEPT !["aof"] = Acquire(@, "W", "main")]
    /\ proc' = [proc EXCEPT !["main"].pc = "closing"]
    /\ UNCHANGED <<disk, closed, storeVars, logVars, codecVars, serverVars, conn, workerVars>>

\* Aof.Close: file.Close() and the deferred Unlock
CloseUnlock ==
    /\ proc["main"].pc = "closing"
    /\ closed' = TRUE
    /\ locks' = [locks EXCEPT !["aof"] = Release(@, "W", "main")]
    /\ proc' = [proc EXCEPT !["main"].pc = "closed"]
    /\ UNCHANGED <<disk, storeVars, logVars, codecVars, serverVars, conn, workerVars>>

\* the operating system writes its cached pages of the file back on its own
OsWriteback ==
    /\ disk # file
    /\ disk' = file
    /\ UNCHANGED <<locks, proc, closed, storeVars, logVars, codecVars, serverVars, conn, workerVars>>

NextRun ==
    \/ ReadLock
    \/ ReadNext
    \/ CallbackReturn
    \/ \E p \in {"main"} \cup Conns : StoreLock(p)
    \/ \E p \in {"main"} \cup Conns : StoreUnlock(p)
    \/ \E c \in Conns, v \in LiveFrames : Receive(c, v)
    \/ \E c \in Conns : HandlerReturn(c)
    \/ \E c \in Conns : WriteLock(c)
    \/ \E c \in Conns : WriteUnlock(c)
    \/ SyncLock
    \/ SyncUnlock
    \/ CloseLock
    \/ CloseUnlock
    \/ OsWriteback

SpecRun == InitRun /\ [][NextRun]_vars

\* C15: no goroutine holds more than one of aof.mu, store.mu and
\* hashStore.mu at the same time, the replay callback inside Aof.Read
\* included.
C15_OneLockAtATime ==
    \A p \in Goroutines : Cardinality(HeldBy(p)) <= 1

\* C20: once Aof.Close has returned, every byte the completed Aof.Write
\* calls put in the file is on stable storage.
C20_CloseFlushes ==
    closed => disk = file

-----------------------------------------------------------------------------
(* The running process under fair scheduling: the Go scheduler lets every  *)
(* runnable goroutine take its next step, and sync.Mutex hands the lock to *)
(* a goroutine that has waited for it (starvation mode), so a goroutine    *)
(* that finds aof.mu free again and again does acquire it.  Nothing is     *)
(* assumed of the clients (Receive), of shutdown (CloseLock) or of the     *)
(* operating system's own write-back, nor of main before it serves: no    *)
(* Aof.Write runs until the replay has returned.                           *)

\* the next step of connection worker c, whichever it is
WorkerStep(c) ==
    StoreLock(c) \/ StoreUnlock(c) \/ HandlerReturn(c) \/ WriteLock(c) \/ WriteUnlock(c)

\* the next step of the sync goroutine
SyncStep == SyncLock \/ SyncUnlock

FairRun ==
    /\ SF_vars(SyncStep)
    /\ \A c \in Conns : SF_vars(WorkerStep(c))
    /\ WF_vars(CloseUnlock)

SpecRunFair == InitRun /\ [][NextRun]_vars /\ FairRun

\* C21: the sync goroutine and Aof.Write are never inside aof.mu together;
\* the step that completes an Aof.Write leaves stable storage as it was;
\* and whenever the file holds bytes that are not on stable storage, they
\* get there, unless the log is closed first.
C21_EventualDurability ==
    /\ [](~(proc["sync"].pc = "sync" /\ \E c \in Conns : proc[c].pc = "write"))
    /\ [][(\E c \in Conns : proc[c].pc = "write" /\ proc'[c].pc = "idle")
             => disk' = disk]_vars
    /\ (disk # file) ~> (disk = file \/ closed)

C21_Witness ==
    /\ ~closed
    /\ proc["main"].pc = "serve"
    /\ Len(written) > Len(replayed)
    /\ disk = file
    /\ proc["sync"].pc = "sleep"
    /\ \E c \in Conns : proc[c].pc = "write"

\* the keys of the String Store that a step removes
KeysRemoved == DOMAIN data \ DOMAIN data'

FieldsOf(hd) == UNION {{<<h, f>> : f \in DOMAIN hd[h]} : h \in DOMAIN hd}

\* C23: every step removes exactly as many keys and hash fields as there
\* are DEL and HDEL handlers counting a removal in it, so the counts the
\* handlers return add up to the number of present-to-absent transitions:
\* of two concurrent DELs of one key, one counts it and the other does not.
C23_RemovalCountedOnce ==
    [][Cardinality({p \in Goroutines : proc'[p].count = proc[p].count + 1})
          = Cardinality(KeysRemoved) + Cardinality(FieldsOf(hdata) \ FieldsOf(hdata'))]_vars

C23_Witness ==
    /\ \A c \in Conns :
          /\ proc[c].pc = "log"
          /\ proc[c].v = Frame(<<68, 69, 76>>, <<<<97>>>>)
    /\ proc["c1"].count = 0
    /\ proc["c2"].count = 1
    /\ DOMAIN data = {}

-----------------------------------------------------------------------------
(* The server executing commands in which one name is both a string key    *)
(* and a hash name: the commands of Commands with the hash name replaced   *)
(* by the key "a".                                                         *)

SharedName == <<97>>

HashCommandNames == {"HSET", "HGET", "HGETALL", "HDEL"}
StringCommandNames == {"SET", "GET", "DEL", "EXISTS"}

\* the argument list with every hash name replaced by the shared name
Shared(args) ==
    [i \in 1..Len(args) |-> IF args[i].bulk \in Hashes THEN BulkV(SharedName) ELSE args[i]]

SharedCommands ==
    {IF c.name \in HashCommandNames THEN [name |-> c.name, args |-> Shared(c.args)] ELSE c :
        c \in Commands}

InitStores ==
    /\ ConnIdle
    /\ RunIdle
    /\ CodecIdle
    /\ WorkersIdle
    /\ LogIdle
    /\ data = EmptyMap
    /\ hdata = EmptyMap
    /\ cmd = NoCommand
    /\ result = ZeroValue
    /\ reply = <<>>
    /\ lastW = [k \in Keys |-> NoWrite]
    /\ hlastW = [h \in {SharedName} |-> [f \in Fields |-> NoWrite]]

NextStores == \E c \in SharedCommands : Execute(c)

SpecStores == InitStores /\ [][NextStores]_vars

\* C22: SET, GET, DEL and EXISTS leave the Hash Store unchanged and HSET,
\* HGET, HGETALL and HDEL leave the String Store unchanged, whatever the
\* arguments, also when the key and the hash have the same name.
C22_StoreIndependence ==
    [][/\ cmd'.name \in StringCommandNames => hdata' = hdata
       /\ cmd'.name \in HashCommandNames => data' = data]_vars

C22_Witness ==
    /\ cmd = [name |-> "DEL", args |-> <<BulkV(SharedName)>>]
    /\ result = IntegerV(1)
    /\ SharedName \notin DOMAIN data
    /\ SharedName \in DOMAIN hdata
    /\ hlastW[SharedName][<<102>>].op = "SET"

(***************************************************************************)
(* The connection worker of main.go:9-49.  main listens, accepts one       *)
(* connection, registers two deferred closes of it and serves it: each     *)
(* turn of the loop reads from the socket and answers +PONG.  What the     *)
(* socket returns is an input: a read succeeds, meets EOF or fails with    *)
(* another error; a write succeeds or fails.  conn records where main is,  *)
(* whether the connection is open, the reads and writes made on it, the    *)
(* diagnostics printed, whether a read has failed with an error other than *)
(* EOF and how many reads and writes were made on the connection after     *)
(* the first such failure.                                                 *)
(***************************************************************************)
MaxIO == 4

ReadOutcomes == {"ok", "EOF", "error"}

WriteOutcomes == {"ok", "error"}

InitConn ==
    /\ conn = [pc |-> "listen", open |-> FALSE, reads |-> 0, writes |-> 0,
               diags |-> 0, failed |-> FALSE, after |-> 0, closes |-> 0]
    /\ RunIdle
    /\ CodecIdle
    /\ WorkersIdle
    /\ LogIdle
    /\ data = EmptyMap
    /\ hdata = EmptyMap
    /\ cmd = NoCommand
    /\ result = ZeroValue
    /\ reply = <<>>
    /\ lastW = <<>>
    /\ hlastW = <<>>

othersThanConn == <<codecVars, storeVars, serverVars, workerVars, logVars, runVars>>

\* net.Listen: on failure main prints and returns, nothing is deferred yet
Listen(ok) ==
    /\ conn.pc = "listen"
    /\ conn' = IF ok THEN [conn EXCEPT !.pc = "accept"]
                     ELSE [conn EXCEPT !.pc = "done", !.diags = @ + 1]
    /\ UNCHANGED othersThanConn

\* listener.Accept, then the two defer statements
Accept(ok) ==
    /\ conn.pc = "accept"
    /\ conn' = IF ok THEN [conn EXCEPT !.pc = "read", !.open = TRUE]
                     ELSE [conn EXCEPT !.pc = "done", !.diags = @ + 1]
    /\ UNCHANGED othersThanConn

\* conn.Read and the test of its error: EOF breaks out of the loop and main
\* returns into its deferred calls; any other error is printed and the loop
\* body goes on to the write
ConnRead(outcome) ==
    /\ conn.pc = "read"
    /\ conn.reads < MaxIO \/ outcome = "EOF"
    /\ conn' = [conn EXCEPT
           !.reads = @ + 1,
           !.after = IF conn.failed THEN @ + 1 ELSE @,
           !.failed = @ \/ outcome = "error",
           !.diags = IF outcome = "error" THEN @ + 1 ELSE @,
           !.pc = IF outcome = "EOF" THEN "close" ELSE "write"]
    /\ UNCHANGED othersThanConn

\* conn.Write of +PONG: an error is printed, and the loop starts over
ConnWrite(outcome) ==
    /\ conn.pc = "write"
    /\ conn' = [conn EXCEPT
           !.writes = @ + 1,
           !.after = IF conn.failed THEN @ + 1 ELSE @,
           !.diags = IF outcome = "error" THEN @ + 1 ELSE @,
           !.pc = "read"]
    /\ UNCHANGED othersThanConn

\* the deferred closure, registered last and run first: conn.Close, whose
\* error would be printed
DeferredClosure(ok) ==
    /\ conn.pc = "close"
    /\ conn' = [conn EXCEPT !.open = FALSE, !.closes = @ + 1,
                            !.diags = IF ok THEN @ ELSE @ + 1,
                            !.pc = "closeAgain"]
    /\ UNCHANGED othersThanConn

\* the deferred conn.Close registered first: the connection is closed
\* already, the error this returns is dropped
DeferredClose ==
    /\ conn.pc = "closeAgain"
    /\ conn' = [conn EXCEPT !.open = FALSE, !.closes = @ + 1, !.pc = "done"]
    /\ UNCHANGED othersThanConn

NextConn ==
    \/ \E ok \in BOOLEAN : Listen(ok)
    \/ \E ok \in BOOLEAN : Accept(ok)
    \/ \E outcome \in ReadOutcomes : ConnRead(outcome)
    \/ \E outcome \in WriteOutcomes : ConnWrite(outcome)
    \/ \E ok \in BOOLEAN : DeferredClosure(ok)
    \/ DeferredClose

SpecConn == InitConn /\ [][NextConn]_vars

\* C24: once a read from the socket has failed with an error other than
\* EOF the serving loop is over, the worker being on its way to closing the
\* connection or past it, and it has made no read and no write on the
\* connection since that failure.
C24_WorkerLifetime ==
    conn.failed =>
        /\ conn.pc \in {"close", "closeAgain", "done"}
        /\ conn.after = 0

====
